---------------------------- MODULE Spec2Model ----------------------------
(***************************************************************************)
(* Model of newpkg's dependency resolver, src/newpkg/lib/deps.py           *)
(* (class DepResolver and the database helpers it calls).                  *)
(*                                                                         *)
(* Strings are sequences of one-character strings, so that the string      *)
(* operations of the source (split, join) are computed and not assumed.    *)
(* A package name is such a string; <<"A">> is the package "A".            *)
(*                                                                         *)
(* The networkx DiGraph is a record [nodes, attrs, edges]: attrs maps each *)
(* node to its attribute dictionary, edges is a set of <<from, to>> pairs  *)
(* ("from depends on to").  Of the attribute keys the source writes        *)
(* (version, origin, provides, optional) the model keeps version and       *)
(* optional; origin and provides are written and read exactly as version   *)
(* is and no operation of the resolver reads them.                         *)
(***************************************************************************)
EXTENDS Integers, Sequences, FiniteSets, TLC

VARIABLES graph,        \* self.graph
          loaded,       \* self.loaded_from_cache
          cacheFile,    \* content of the file at self.cache_path
          tmpFile,      \* content of the file at self.cache_path + ".tmp"
          pc,           \* position of the process inside persist_cache
          result        \* what the last operation returned, with its inputs

vars == <<graph, loaded, cacheFile, tmpFile, pc, result>>

-----------------------------------------------------------------------------
(* Bounds of the model *)

\* largest number of edges the graph is grown to
MaxEdges == 3
\* largest number of optional candidates recorded in the whole graph
MaxOptional == 1
\* longest list the package database returns (list, revdeps)
MaxDbList == 2
\* largest number of entries of a cache file the resolver did not write
MaxCacheEntries == 2
\* largest number of descriptors in the ports tree
MaxPorts == 2

-----------------------------------------------------------------------------
(* Strings *)

A == <<"A">>
B == <<"B">>
C == <<"C">>
Names == {A, B, C}

\* Python None, and the marker of a key that a dictionary does not hold; both
\* are written as strings no package name or version can be
None == <<"None">>
Missing == <<"<missing>">>
\* the marker of a missing key whose values are lists of strings
MissingList == <<Missing>>

\* the elements of a set in some order: the order in which the source
\* iterates a set or an adjacency, which the graph record does not keep
RECURSIVE SetToSeq(_)
SetToSeq(S) ==
    IF S = {} THEN <<>>
    ELSE LET x == CHOOSE y \in S : TRUE IN <<x>> \o SetToSeq(S \ {x})

Range(s) == {s[i] : i \in 1..Len(s)}

\* all sequences without repetition over the set S
Perms(S) == {s \in [1..Cardinality(S) -> S] : Range(s) = S}

\* str.split(sep)[0] for a non-empty separator: the text before the first
\* occurrence of sep, the whole text when sep does not occur
SplitFirst(s, sep) ==
    LET hits == {i \in 1..(Len(s) - Len(sep) + 1) :
                    SubSeq(s, i, i + Len(sep) - 1) = sep}
    IN  IF hits = {} THEN s
        ELSE SubSeq(s, 1, (CHOOSE i \in hits : \A j \in hits : i <= j) - 1)

\* str.split(): the words separated by runs of white space; here only the
\* first word is used, <<>> stands for "no word at all"
FirstWord(s) ==
    LET nonblank == {i \in 1..Len(s) : s[i] # " "}
    IN  IF nonblank = {} THEN <<>>
        ELSE LET b == CHOOSE i \in nonblank : \A j \in nonblank : i <= j
                 rest == SubSeq(s, b, Len(s))
             IN  SplitFirst(rest, <<" ">>)

HasWord(s) == \E i \in 1..Len(s) : s[i] # " "

\* sep.join(list)
RECURSIVE Join(_, _)
Join(sep, lst) ==
    IF lst = <<>> THEN <<>>
    ELSE IF Len(lst) = 1 THEN lst[1]
    ELSE lst[1] \o sep \o Join(sep, Tail(lst))

\* the subsequence of s made of its elements that are in keep
RECURSIVE Filter(_, _)
Filter(s, keep) ==
    IF s = <<>> THEN <<>>
    ELSE (IF s[1] \in keep THEN <<s[1]>> ELSE <<>>) \o Filter(Tail(s), keep)

-----------------------------------------------------------------------------
(* The dependency graph (networkx.DiGraph as the source uses it) *)

NoAttrs == [version |-> Missing, optional |-> MissingList]

EmptyGraph == [nodes |-> {}, attrs |-> [n \in {} |-> NoAttrs], edges |-> {}]

\* mutant: the attributes given replace the whole dictionary
AttrReplace(old, kw) == kw

\* dict.update: the keys given in kw replace those of old
AttrUpdate(old, kw) ==
    [version  |-> IF kw.version = Missing THEN old.version ELSE kw.version,
     optional |-> IF kw.optional = MissingList THEN old.optional ELSE kw.optional]

\* DiGraph.add_node(n, **kw)
add_node(g, n, kw) ==
    [nodes |-> g.nodes \cup {n},
     attrs |-> [m \in g.nodes \cup {n} |->
                  IF m = n
                  THEN AttrUpdate(IF n \in g.nodes THEN g.attrs[n] ELSE NoAttrs, kw)
                  ELSE g.attrs[m]],
     edges |-> g.edges]

\* DiGraph.add_edge(u, v): both ends become nodes
add_edge(g, u, v) ==
    LET g1 == add_node(add_node(g, u, NoAttrs), v, NoAttrs)
    IN  [g1 EXCEPT !.edges = @ \cup {<<u, v>>}]

\* DiGraph.successors(n)
successors(g, n) == {e[2] : e \in {x \in g.edges : x[1] = n}}

\* DiGraph.subgraph(S).copy()
subgraph(g, S) ==
    [nodes |-> g.nodes \cap S,
     attrs |-> [n \in g.nodes \cap S |-> g.attrs[n]],
     edges |-> {e \in g.edges : e[1] \in S /\ e[2] \in S}]


-----------------------------------------------------------------------------
(* Descriptors and add_package_from_metafile *)

\* a dependency entry of a descriptor: a string, a mapping with a "name"
\* key, or anything else (a number, a mapping without "name")
StrTok(text)  == [kind |-> "str",   text |-> text]
DictTok(name) == [kind |-> "dict",  text |-> name]
OtherTok      == [kind |-> "other", text |-> <<>>]

\* the chain of splits of norm_list on a string entry
norm_str(it) ==
    SplitFirst(SplitFirst(SplitFirst(SplitFirst(SplitFirst(
        FirstWord(it), <<">", "=">>), <<"<", "=">>), <<"=", "=">>), <<">">>), <<"<">>)

\* norm_list: raised is the IndexError of "".split()[0]
RECURSIVE norm_list(_)
norm_list(lst) ==
    IF lst = <<>> THEN [raised |-> FALSE, out |-> <<>>]
    ELSE LET it   == lst[1]
             rest == norm_list(Tail(lst))
         IN  IF it.kind = "str" /\ ~HasWord(it.text)
             THEN [raised |-> TRUE, out |-> <<>>]
             ELSE IF rest.raised THEN rest
             ELSE [raised |-> FALSE,
                   out |-> (CASE it.kind = "str"  -> <<norm_str(it.text)>>
                              [] it.kind = "dict" -> <<it.text>>
                              [] OTHER            -> <<>>) \o rest.out]

\* mutant: a dependency equal to the package itself is not skipped
RECURSIVE add_deps_with_self(_, _, _)
add_deps_with_self(g, name, D) ==
    IF D = {} THEN g
    ELSE LET d == CHOOSE x \in D : TRUE
         IN  add_deps_with_self(add_edge(add_node(g, d, NoAttrs), name, d),
                                name, D \ {d})

\* the loop over set(build_deps + run_deps)
RECURSIVE add_deps(_, _, _)
add_deps(g, name, D) ==
    IF D = {} THEN g
    ELSE LET d == CHOOSE x \in D : TRUE
         IN  add_deps(IF d = name THEN g
                      ELSE add_edge(add_node(g, d, NoAttrs), name, d),
                      name, D \ {d})

\* parse_metafile returned nothing (no such descriptor, or not a mapping)
NoMeta == [name |-> None, version |-> None, build |-> <<>>, runtime |-> <<>>,
           optional |-> <<>>, parsed |-> FALSE]

Meta(name, version, build, runtime, optional) ==
    [name |-> name, version |-> version, build |-> build, runtime |-> runtime,
     optional |-> optional, parsed |-> TRUE]

\* add_package_from_metafile on the parsed descriptor meta:
\* ret is the returned name (None when nothing was added), raised says that
\* norm_list raised, which happens before the graph is touched
add_package_from_metafile(g, meta) ==
    IF ~meta.parsed \/ meta.name = None
    THEN [graph |-> g, ret |-> None, raised |-> FALSE]
    ELSE LET b == norm_list(meta.build)
             r == norm_list(meta.runtime)
             o == norm_list(meta.optional)
         IN  IF b.raised \/ r.raised \/ o.raised
             THEN [graph |-> g, ret |-> None, raised |-> TRUE]
             ELSE LET g1 == add_node(g, meta.name,
                                     [version |-> meta.version, optional |-> o.out])
                      g2 == add_deps(g1, meta.name, Range(b.out) \cup Range(r.out))
                  IN  [graph |-> g2, ret |-> meta.name, raised |-> FALSE]


\* the scan of build_graph_from_ports over the descriptors of the ports
\* tree: an exception of add_package_from_metafile skips the descriptor
RECURSIVE build_graph_from_ports(_, _)
build_graph_from_ports(g, metas) ==
    IF metas = <<>> THEN g
    ELSE build_graph_from_ports(add_package_from_metafile(g, metas[1]).graph,
                                Tail(metas))

-----------------------------------------------------------------------------
(* resolve *)

\* self.graph.nodes[n].get("optional") or []
optional_of(g, n) ==
    IF g.attrs[n].optional = MissingList THEN <<>> ELSE g.attrs[n].optional

\* the first while loop of resolve: stack is popped from its end
RECURSIVE dfs(_, _, _, _, _)
dfs(g, stack, visited, deps_set, optional_to_ask) ==
    IF stack = <<>>
    THEN [deps_set |-> deps_set, optional_to_ask |-> optional_to_ask]
    ELSE LET cur  == stack[Len(stack)]
             rest == SubSeq(stack, 1, Len(stack) - 1)
         IN  IF cur \in visited
             THEN dfs(g, rest, visited, deps_set, optional_to_ask)
             ELSE LET ds  == successors(g, cur) \ {cur}
                      opt == optional_of(g, cur)
                  IN  dfs(g, rest \o SetToSeq(ds), visited \cup {cur},
                          deps_set \cup ds,
                          IF opt # <<>>
                          THEN Append(optional_to_ask, <<cur, opt>>)
                          ELSE optional_to_ask)

\* mutant: the accepted candidate itself joins deps_set
RECURSIVE optwalk_with_candidate(_, _, _)
optwalk_with_candidate(g, stack, deps_set) ==
    IF stack = <<>> THEN deps_set
    ELSE LET c    == stack[Len(stack)]
             rest == SubSeq(stack, 1, Len(stack) - 1)
             new  == (successors(g, c) \cup {c}) \ deps_set
         IN  optwalk_with_candidate(g, rest \o SetToSeq(new \ {c}),
                                    deps_set \cup new)

\* the inner while loop run for an accepted optional candidate
RECURSIVE optwalk(_, _, _)
optwalk(g, stack, deps_set) ==
    IF stack = <<>> THEN deps_set
    ELSE LET c    == stack[Len(stack)]
             rest == SubSeq(stack, 1, Len(stack) - 1)
             new  == successors(g, c) \ deps_set
         IN  optwalk(g, rest \o SetToSeq(new), deps_set \cup new)

\* the (parent, candidate) pairs in the order the prompt loop visits them
RECURSIVE pairs_of(_)
pairs_of(optional_to_ask) ==
    IF optional_to_ask = <<>> THEN <<>>
    ELSE LET parent == optional_to_ask[1][1]
             opts   == optional_to_ask[1][2]
         IN  [i \in 1..Len(opts) |-> <<parent, opts[i]>>]
             \o pairs_of(Tail(optional_to_ask))

\* Descriptor Source: what parse_metafile(name) finds for a package name
find(source, name) == IF name \in DOMAIN source THEN source[name] ELSE NoMeta

\* input() answers: "y" is any text that strips and lowers to y or yes,
\* "n" any other text, "interrupt" a KeyboardInterrupt
Answers == {"y", "n", "interrupt"}

\* the prompt loop: raised is the exception of successors(o) on a
\* candidate that is still no node, or the one norm_list raised
RECURSIVE ask_optional(_, _, _, _, _)
ask_optional(g, pairs, answers, source, deps_set) ==
    IF pairs = <<>>
    THEN [graph |-> g, deps_set |-> deps_set, raised |-> FALSE]
    ELSE LET o == pairs[1][2]
         IN  IF answers[1] # "y"
             THEN ask_optional(g, Tail(pairs), Tail(answers), source, deps_set)
             ELSE LET added == IF o \in g.nodes
                               THEN [graph |-> g, ret |-> o, raised |-> FALSE]
                               ELSE add_package_from_metafile(g, find(source, o))
                  IN  IF added.raised \/ o \notin added.graph.nodes
                      THEN [graph |-> added.graph, deps_set |-> deps_set,
                            raised |-> TRUE]
                      ELSE ask_optional(added.graph, Tail(pairs), Tail(answers),
                                        source,
                                        optwalk(added.graph, <<o>>, deps_set))

\* position of x in the sequence s (0 when absent)
Index(s, x) ==
    IF x \in Range(s) THEN CHOOSE i \in 1..Len(s) : s[i] = x ELSE 0

Rotations(s) ==
    {[i \in 1..Len(s) |-> s[((i + k - 1) % Len(s)) + 1]] : k \in 0..(Len(s) - 1)}

\* mutant: only the circuits through three nodes or more are found
simple_cycles_long(g) ==
    LET closed == {s \in UNION {Perms(S) : S \in (SUBSET g.nodes) \ {{}}} :
                     \A i \in 1..Len(s) :
                        <<s[i], s[(i % Len(s)) + 1]>> \in g.edges}
    IN  {s \in closed : Len(s) >= 3 /\ s = CHOOSE t \in Rotations(s) : TRUE}

\* nx.simple_cycles: every elementary circuit once (a self-loop is one),
\* each as the list of its nodes starting at some node of it
simple_cycles(g) ==
    LET closed == {s \in UNION {Perms(S) : S \in (SUBSET g.nodes) \ {{}}} :
                     \A i \in 1..Len(s) :
                        <<s[i], s[(i % Len(s)) + 1]>> \in g.edges}
    IN  {s \in closed : s = CHOOSE t \in Rotations(s) : TRUE}

\* nx.topological_sort: the orders it can yield, every edge u -> v having
\* u before v; which of them depends on iteration orders the model leaves open
topological_sort(g) ==
    {s \in Perms(g.nodes) :
        \A e \in g.edges : Index(s, e[1]) < Index(s, e[2])}

\* mutant: the topological order is returned as it is
Reverse_Identity(s) == s

\* topo[::-1]
Reverse(s) == [i \in 1..Len(s) |-> s[Len(s) + 1 - i]]

\* what resolve returns once deps_set is known (from "sub_nodes = ..." on)
finish(g, root_pkg, deps_set, asked) ==
    LET sub_nodes == deps_set \cup {root_pkg}
        subg      == subgraph(g, sub_nodes)
        cycles    == simple_cycles(subg)
        base      == [graph |-> g, raised |-> FALSE, found |-> TRUE,
                      sub_nodes |-> sub_nodes, asked |-> asked,
                      order |-> <<>>, cycles |-> <<>>]
    IN  IF cycles # {}
        THEN {[base EXCEPT !.order = <<>>, !.cycles = cs] :
                 cs \in {SetToSeq({Join(<<",">>, c) : c \in cycles})}}
        ELSE IF topological_sort(subg) = {}
        THEN {[base EXCEPT !.order = <<>>, !.cycles = <<>>]}
        ELSE {[base EXCEPT !.order = Reverse(topo), !.cycles = <<>>] :
                 topo \in topological_sort(subg)}

\* resolve(root_pkg, include_optional_prompt) under the policy
\* config["resolve_optional"]: the set of its possible outcomes.
\* Each outcome holds the graph afterwards, raised (an exception left
\* resolve), found (root_pkg was or became a node), the returned order and
\* cycles, the node set of the subgraph and the pairs prompted for
resolve(g, root_pkg, include_optional_prompt, resolve_optional, source, answers) ==
    LET added == IF root_pkg \in g.nodes
                 THEN [graph |-> g, ret |-> root_pkg, raised |-> FALSE]
                 ELSE add_package_from_metafile(g, find(source, root_pkg))
        fail  == [graph |-> added.graph, raised |-> added.raised, found |-> FALSE,
                  sub_nodes |-> {}, asked |-> <<>>, order |-> <<>>, cycles |-> <<>>]
    IN  IF added.raised \/ added.ret = None
        THEN {fail}
        ELSE LET g1 == added.graph
                 d  == dfs(g1, <<root_pkg>>, {}, {}, <<>>)
             IN  IF d.optional_to_ask # <<>> /\ include_optional_prompt
                    /\ resolve_optional
                 THEN LET pairs == pairs_of(d.optional_to_ask)
                          a     == ask_optional(g1, pairs, answers, source, d.deps_set)
                      IN  IF a.raised
                          THEN {[fail EXCEPT !.graph = a.graph, !.raised = TRUE,
                                             !.found = TRUE, !.asked = pairs]}
                          ELSE finish(a.graph, root_pkg, a.deps_set, pairs)
                 ELSE finish(g1, root_pkg, d.deps_set, <<>>)


-----------------------------------------------------------------------------
(* resolve, one loop iteration at a time *)

(***************************************************************************)
(* A traversal is a record [stack, visited, deps_set, optional_to_ask,     *)
(* pops]: the local variables of resolve, and for every package the number *)
(* of times the running loop has popped it from the stack.                 *)
(***************************************************************************)
NoPops == [n \in Names |-> 0]

\* the locals before the first while loop
start_traversal(root_pkg) ==
    [stack |-> <<root_pkg>>, visited |-> {}, deps_set |-> {},
     optional_to_ask |-> <<>>, pops |-> NoPops]

\* mutant: a package is expanded again every time it is popped
dfs_step_revisiting(g, t) ==
    LET cur  == t.stack[Len(t.stack)]
        rest == SubSeq(t.stack, 1, Len(t.stack) - 1)
        ds   == successors(g, cur) \ {cur}
    IN  [t EXCEPT !.stack = rest \o SetToSeq(ds),
                  !.deps_set = @ \cup ds,
                  !.pops[cur] = @ + 1]

\* one iteration of the first while loop of resolve
dfs_step(g, t) ==
    LET cur  == t.stack[Len(t.stack)]
        rest == SubSeq(t.stack, 1, Len(t.stack) - 1)
        ds   == successors(g, cur) \ {cur}
        opt  == optional_of(g, cur)
    IN  IF cur \in t.visited
        THEN [t EXCEPT !.stack = rest, !.pops[cur] = @ + 1]
        ELSE [t EXCEPT !.stack = rest \o SetToSeq(ds),
                       !.visited = @ \cup {cur},
                       !.deps_set = @ \cup ds,
                       !.optional_to_ask =
                           IF opt # <<>> THEN Append(@, <<cur, opt>>) ELSE @,
                       !.pops[cur] = @ + 1]

\* one iteration of the while loop run for an accepted candidate
opt_step(g, t) ==
    LET c    == t.stack[Len(t.stack)]
        rest == SubSeq(t.stack, 1, Len(t.stack) - 1)
        new  == successors(g, c) \ t.deps_set
    IN  [t EXCEPT !.stack = rest \o SetToSeq(new),
                  !.deps_set = @ \cup new,
                  !.pops[c] = @ + 1]

-----------------------------------------------------------------------------
(* The package database (db.sh) and the queries that use it *)

\* what running "db.sh query <pkg> --json" gives: cli is FALSE when the
\* program is not there (FileNotFoundError); stdout is "" (blank), or says
\* what the text decodes to
Reply(cli, returncode, stdout) ==
    [cli |-> cli, returncode |-> returncode, stdout |-> stdout]

Record == "manifest"
NoRecord == "None"

\* mutant: whatever db.sh prints with status 0 counts as a record
call_db_query_any_output(reply) ==
    IF reply.cli /\ reply.returncode = 0 /\ reply.stdout # "" THEN Record
    ELSE NoRecord

\* call_db_query: the manifest of an installed package, or None
call_db_query(reply) ==
    IF ~reply.cli THEN NoRecord
    ELSE IF reply.returncode = 0 /\ reply.stdout # ""
    THEN CASE reply.stdout = "array"  -> Record
           [] reply.stdout = "object" -> Record
           [] OTHER                   -> NoRecord
    ELSE NoRecord

\* db maps each package name to the reply its query gets
query(db, pkg) == call_db_query(db[pkg])

\* the for loop of missing_deps
RECURSIVE missing_loop(_, _, _)
missing_loop(order, root_pkg, db) ==
    IF order = <<>> THEN <<>>
    ELSE (IF order[1] # root_pkg /\ query(db, order[1]) = NoRecord
          THEN <<order[1]>> ELSE <<>>)
         \o missing_loop(Tail(order), root_pkg, db)

\* missing_deps, given what its call of resolve gave
missing_deps(out, root_pkg, db) ==
    IF out.raised THEN [raised |-> TRUE, ret |-> <<>>]
    ELSE IF out.cycles # <<>> THEN [raised |-> FALSE, ret |-> <<>>]
    ELSE [raised |-> FALSE, ret |-> missing_loop(out.order, root_pkg, db)]

\* the for loop of install_order
RECURSIVE install_loop(_, _, _, _)
install_loop(order, root_pkg, skip_installed, db) ==
    IF order = <<>> THEN <<>>
    ELSE (IF order[1] = root_pkg
             \/ (skip_installed /\ query(db, order[1]) # NoRecord)
          THEN <<>> ELSE <<order[1]>>)
         \o install_loop(Tail(order), root_pkg, skip_installed, db)

\* mutant: the root is appended whether it is installed or not
install_order_always_root(out, root_pkg, skip_installed, db) ==
    IF out.raised \/ out.cycles # <<>> THEN [raised |-> TRUE, ret |-> <<>>]
    ELSE [raised |-> FALSE,
          ret |-> Append(install_loop(out.order, root_pkg, skip_installed, db),
                         root_pkg)]

\* install_order, given what its call of resolve gave; raised is an
\* exception of resolve or the RuntimeError on cycles
install_order(out, root_pkg, skip_installed, db) ==
    IF out.raised \/ out.cycles # <<>> THEN [raised |-> TRUE, ret |-> <<>>]
    ELSE LET final == install_loop(out.order, root_pkg, skip_installed, db)
         IN  [raised |-> FALSE,
              ret |-> IF ~(skip_installed /\ query(db, root_pkg) # NoRecord)
                      THEN Append(final, root_pkg) ELSE final]

-----------------------------------------------------------------------------
(* detect_orphans and mark_for_rebuild *)

\* an entry of the installed list that is no mapping with a "name"
Junk == <<"junk">>

\* what running "db.sh list --json" gives: items are the entries of the
\* decoded list, read only when stdout decodes to a list ("array")
ListReply(cli, returncode, stdout, items) ==
    [cli |-> cli, returncode |-> returncode, stdout |-> stdout, items |-> items]

\* mutant: only the dependents that are themselves installed are counted
detect_orphans_installed_only(g, reply) ==
    IF ~reply.cli \/ reply.returncode # 0 \/ reply.stdout # "array" THEN <<>>
    ELSE LET names == Filter(reply.items, Range(reply.items) \ {Junk})
         IN  Filter(names, {n \in Range(names) :
                              ~\E e \in g.edges : e[2] = n /\ e[1] \in Range(names)})

\* detect_orphans
detect_orphans(g, reply) ==
    LET \* early is the return [] on a failure status or a blank output;
        \* installed_names is [] after any exception (db.sh missing,
        \* output that does not decode or cannot be iterated)
        early == reply.cli /\ (reply.returncode # 0 \/ reply.stdout = "")
        installed_names ==
            IF reply.cli /\ reply.stdout = "array"
            THEN Filter(reply.items, Range(reply.items) \ {Junk})
            ELSE <<>>
        revdeps_map ==
            [n \in g.nodes \cup {e[2] : e \in g.edges} |->
                {e[1] : e \in {x \in g.edges : x[2] = n}}]
        deps_of_me(name) ==
            IF name \in DOMAIN revdeps_map THEN revdeps_map[name] ELSE {}
    IN  IF early THEN <<>>
        ELSE Filter(installed_names,
                    {n \in Range(installed_names) : deps_of_me(n) = {}})

\* str.strip()
Strip(s) ==
    LET nonblank == {i \in 1..Len(s) : s[i] # " "}
    IN  IF nonblank = {} THEN <<>>
        ELSE SubSeq(s, CHOOSE i \in nonblank : \A j \in nonblank : i <= j,
                       CHOOSE i \in nonblank : \A j \in nonblank : i >= j)

\* what running "db.sh revdeps <pkg>" gives: the lines of its output
RevReply(cli, returncode, lines) ==
    [cli |-> cli, returncode |-> returncode, lines |-> lines]

RECURSIVE stripped_lines(_)
stripped_lines(lines) ==
    IF lines = <<>> THEN <<>>
    ELSE (IF Strip(lines[1]) # <<>> THEN <<Strip(lines[1])>> ELSE <<>>)
         \o stripped_lines(Tail(lines))

\* db_revdeps
db_revdeps(reply) ==
    IF ~reply.cli THEN <<>>
    ELSE IF reply.returncode = 0 THEN stripped_lines(reply.lines)
    ELSE <<>>

\* breadth-first search from the frontier; -1 when t is never reached
RECURSIVE bfs(_, _, _, _, _)
bfs(g, frontier, seen, t, d) ==
    IF t \in frontier THEN d
    ELSE LET next == UNION {successors(g, n) : n \in frontier} \ seen
         IN  IF next = {} THEN -1 ELSE bfs(g, next, seen \cup next, t, d + 1)

\* nx.shortest_path_length(g, s, t); -1 stands for its exceptions
\* (NodeNotFound, NetworkXNoPath)
shortest_path_length(g, s, t) ==
    IF s \notin g.nodes \/ t \notin g.nodes THEN -1
    ELSE bfs(g, {s}, {s}, t, 0)

\* nx.has_path(g, s, t), called on nodes only
has_path(g, s, t) == shortest_path_length(g, s, t) >= 0

\* mutant: ascending instead of descending
RECURSIVE sorted_ascending(_, _)
sorted_ascending(lst, key) ==
    IF lst = <<>> THEN <<>>
    ELSE LET x    == lst[1]
             rest == sorted_ascending(Tail(lst), key)
             k    == Cardinality({i \in 1..Len(rest) : key[rest[i]] < key[x]})
         IN  SubSeq(rest, 1, k) \o <<x>> \o SubSeq(rest, k + 1, Len(rest))

\* sorted(lst, key=..., reverse=True): stable, so equal keys keep the order
\* they have in lst
RECURSIVE sorted_reverse(_, _)
sorted_reverse(lst, key) ==
    IF lst = <<>> THEN <<>>
    ELSE LET x    == lst[1]
             rest == sorted_reverse(Tail(lst), key)
             k    == Cardinality({i \in 1..Len(rest) : key[rest[i]] > key[x]})
         IN  SubSeq(rest, 1, k) \o <<x>> \o SubSeq(rest, k + 1, Len(rest))

\* the set dependents of mark_for_rebuild
dependents_of(g, pkg, reply) ==
    LET revdeps_from_db == db_revdeps(reply)
        parsed == {SplitFirst(revdeps_from_db[i], <<"-">>) :
                      i \in 1..Len(revdeps_from_db)}
    IN  (IF pkg \in g.nodes THEN {n \in g.nodes : has_path(g, n, pkg)} ELSE {})
        \cup parsed

\* mark_for_rebuild: the lists it can return, one for each order in which
\* the set dependents is iterated
mark_for_rebuild(g, pkg, reply) ==
    LET dependents == dependents_of(g, pkg, reply)
        distances  == [d \in dependents |->
                         LET l == shortest_path_length(g, d, pkg)
                         IN  IF l < 0 THEN 0 ELSE l]
    IN  {sorted_reverse(lst, distances) : lst \in Perms(dependents)}

-----------------------------------------------------------------------------
(* The graph cache: _try_load_cache and persist_cache *)

(***************************************************************************)
(* A file is a record [kind, entries].  kind is "absent" (no regular       *)
(* file), "unreadable" (open fails), "garbage" (text json.load rejects),   *)
(* "partial" (a serialization cut short, entries being what was written;   *)
(* json.load rejects it), "scalar" (JSON that is no mapping), "json" (a    *)
(* mapping, entries being its items in file order) or "stale" (a           *)
(* temporary file left behind, which the resolver never reads: the next    *)
(* persist_cache truncates it).  An item is <<node, meta>>; meta is        *)
(* [kind, attrs_ok, attrs, deps_ok, deps]: kind "scalar" is a meta that is *)
(* no mapping, attrs_ok FALSE an "attrs" that is no mapping, deps_ok FALSE *)
(* a "deps" that cannot be iterated; a dep Unhashable is a JSON list or    *)
(* mapping, which cannot be a node.                                        *)
(***************************************************************************)
Unhashable == <<"[]">>

MetaOf(attrs, deps) ==
    [kind |-> "mapping", attrs_ok |-> TRUE, attrs |-> attrs,
     deps_ok |-> TRUE, deps |-> deps]

JsonFile(entries) == [kind |-> "json", entries |-> entries]

\* mutant: the nodes are restored without their attributes
RECURSIVE load_nodes_without_attrs(_, _)
load_nodes_without_attrs(g, entries) ==
    IF entries = <<>> THEN [graph |-> g, raised |-> FALSE]
    ELSE LET node == entries[1][1]
             meta == entries[1][2]
         IN  IF meta.kind # "mapping" \/ ~meta.attrs_ok
             THEN [graph |-> g, raised |-> TRUE]
             ELSE load_nodes_without_attrs(add_node(g, node, NoAttrs), Tail(entries))

\* the first for loop of _try_load_cache
RECURSIVE load_nodes(_, _)
load_nodes(g, entries) ==
    IF entries = <<>> THEN [graph |-> g, raised |-> FALSE]
    ELSE LET node == entries[1][1]
             meta == entries[1][2]
         IN  IF meta.kind # "mapping" \/ ~meta.attrs_ok
             THEN [graph |-> g, raised |-> TRUE]
             ELSE load_nodes(add_node(g, node, meta.attrs), Tail(entries))

\* the inner for loop over meta.get("deps", []): add_edge rejects a dep
\* that cannot be hashed
RECURSIVE load_deps(_, _, _)
load_deps(g, node, deps) ==
    IF deps = <<>> THEN [graph |-> g, raised |-> FALSE]
    ELSE IF deps[1] = Unhashable THEN [graph |-> g, raised |-> TRUE]
    ELSE load_deps(add_edge(g, node, deps[1]), node, Tail(deps))

\* the second for loop of _try_load_cache
RECURSIVE load_edges(_, _)
load_edges(g, entries) ==
    IF entries = <<>> THEN [graph |-> g, raised |-> FALSE]
    ELSE LET node == entries[1][1]
             meta == entries[1][2]
         IN  IF ~meta.deps_ok THEN [graph |-> g, raised |-> TRUE]
             ELSE LET r == load_deps(g, node, meta.deps)
                  IN  IF r.raised THEN r ELSE load_edges(r.graph, Tail(entries))

\* _try_load_cache on the graph g: the graph and loaded_from_cache afterwards
try_load_cache(g, file) ==
    IF file.kind = "absent" THEN [graph |-> g, loaded |-> FALSE]
    ELSE IF file.kind \in {"unreadable", "garbage", "partial", "stale"}
    THEN [graph |-> g, loaded |-> FALSE]
    ELSE IF file.kind = "scalar" THEN [graph |-> EmptyGraph, loaded |-> FALSE]
    ELSE LET n == load_nodes(EmptyGraph, file.entries)
         IN  IF n.raised THEN [graph |-> n.graph, loaded |-> FALSE]
             ELSE LET e == load_edges(n.graph, file.entries)
                  IN  IF e.raised THEN [graph |-> e.graph, loaded |-> FALSE]
                      ELSE [graph |-> e.graph, loaded |-> TRUE]

\* the dictionary out of persist_cache, as json.dump writes it; nodes and
\* successors come in the order SetToSeq gives them
RECURSIVE out_of(_, _)
out_of(g, nodes) ==
    IF nodes = <<>> THEN <<>>
    ELSE <<<<nodes[1], MetaOf(g.attrs[nodes[1]], SetToSeq(successors(g, nodes[1])))>>>>
         \o out_of(g, Tail(nodes))

serialize(g) == out_of(g, SetToSeq(g.nodes))

cache_path == <<"depgraph.json">>

\* mutant: the serialization is written straight to the cache file
tmp_path_in_place(path) == path

\* tmp = self.cache_path + ".tmp"
tmp_path(path) == path \o <<".tmp">>

-----------------------------------------------------------------------------
(* Inputs *)

V1 == <<"1">>

\* the packages of the runs that persist and reload described graphs
GraphNames == {A, B}

\* the forms in which a descriptor names the dependency n
TokensOf(n) == {StrTok(n), StrTok(n \o <<">", "=", "1">>), DictTok(n)}

\* dependency entries: the forms above, an entry that is skipped, and a
\* blank string
Tokens == UNION {TokensOf(n) : n \in Names} \cup {OtherTok, StrTok(<<" ">>)}

SeqsUpTo(S, k) == UNION {[1..n -> S] : n \in 0..k}

PlainLists == SeqsUpTo({StrTok(m) : m \in Names}, 1)

\* the descriptors add_package_from_metafile is called on: plain build and
\* runtime lists, a plain build list with optional candidates, and every
\* form of entry alone
Metas ==
    {Meta(n, V1, b, r, <<>>) : n \in Names, b \in PlainLists, r \in PlainLists}
    \cup {Meta(n, V1, b, <<>>, o) : n \in Names, b \in PlainLists, o \in PlainLists}
    \cup {Meta(n, V1, <<t>>, <<>>, <<>>) : n \in Names, t \in Tokens}
    \cup {Meta(None, V1, <<>>, <<>>, <<>>), NoMeta}

\* the names some node of g lists as optional candidates
Candidates(g) == UNION {Range(optional_of(g, n)) : n \in g.nodes}

\* what the Descriptor Source can hold for the name n when resolve(root_pkg)
\* looks it up; only root_pkg and the optional candidates are ever looked
\* up, and only while they are no nodes
SourceMetas(g, root_pkg, n) ==
    IF n \in g.nodes \/ (n # root_pkg /\ n \notin Candidates(g)) THEN {NoMeta}
    ELSE {Meta(n, V1, b, <<>>, <<>>) : b \in PlainLists} \cup {NoMeta}

\* the Descriptor Source as resolve(root_pkg) sees it
Sources(g, root_pkg) ==
    {(A :> sa) @@ (B :> sb) @@ (C :> sc) :
        sa \in SourceMetas(g, root_pkg, A), sb \in SourceMetas(g, root_pkg, B),
        sc \in SourceMetas(g, root_pkg, C)}

\* the answers given to the prompts; none is read unless both the caller
\* and the policy enable prompting
AnswerLists(include, policy) ==
    IF include /\ policy THEN [1..MaxOptional -> Answers]
    ELSE {[i \in 1..MaxOptional |-> "n"]}

\* descriptors with plain build and runtime lists only
PlainMetas ==
    {Meta(n, V1, b, r, <<>>) : n \in Names, b \in PlainLists, r \in PlainLists}

Installed    == Reply(TRUE, 0, "object")
NotInstalled == Reply(TRUE, 1, "")

\* the other replies: a list of manifests, a blank output, an output that
\* does not decode, an empty list, a scalar, a manifest with a failure status
OddReplies ==
    {Reply(TRUE, 0, "array"), Reply(TRUE, 0, ""), Reply(TRUE, 0, "garbage"),
     Reply(TRUE, 0, "empty array"), Reply(TRUE, 0, "scalar"),
     Reply(TRUE, 1, "object")}

\* the database as one run sees it: db.sh missing altogether, or every
\* package installed or not with at most one odd reply
DbViews ==
    {[n \in Names |-> Reply(FALSE, 0, "")]}
    \cup [Names -> {Installed, NotInstalled}]
    \cup {[v EXCEPT ![n] = r] :
            v \in [Names -> {Installed, NotInstalled}], n \in Names, r \in OddReplies}

\* the replies of "db.sh list --json"
ListReplies ==
    {ListReply(FALSE, 0, "", <<>>), ListReply(TRUE, 1, "", <<>>),
     ListReply(TRUE, 0, "", <<>>), ListReply(TRUE, 0, "garbage", <<>>),
     ListReply(TRUE, 0, "object", <<>>), ListReply(TRUE, 0, "scalar", <<>>)}
    \cup {ListReply(TRUE, rc, "array", items) :
            rc \in {0, 1}, items \in SeqsUpTo(Names \cup {Junk}, MaxDbList)}

\* a package only the database knows
D == <<"D">>

\* the lines "db.sh revdeps" prints: name-version, padded or not, a bare
\* name, a blank line
RevLines ==
    {n \o <<"-", "1">> : n \in Names}
    \cup {<<" ">> \o A \o <<"-", "1", " ">>, D, <<" ">>}

RevReplies ==
    {RevReply(FALSE, 0, <<>>)}
    \cup {RevReply(TRUE, rc, lines) :
            rc \in {0, 1}, lines \in SeqsUpTo(RevLines, MaxDbList)}

\* descriptors the cached graphs are grown with
CacheMetas ==
    {Meta(n, V1, b, <<>>, <<>>) : n \in {A, B}, b \in PlainLists}
    \cup {Meta(A, V1, <<>>, <<>>, <<StrTok(B)>>)}

\* the metas of a cache file the resolver did not write
ForeignMetas ==
    {MetaOf([version |-> V1, optional |-> <<>>], deps) :
        deps \in SeqsUpTo(Names \cup {Unhashable}, 1)}
    \cup {MetaOf(NoAttrs, <<>>),
          [MetaOf(NoAttrs, <<>>) EXCEPT !.kind = "scalar"],
          [MetaOf(NoAttrs, <<>>) EXCEPT !.attrs_ok = FALSE],
          [MetaOf(NoAttrs, <<>>) EXCEPT !.deps_ok = FALSE]}

\* the order in which a cache file the resolver did not write names nodes
NameOrder == <<A, B, C>>

\* the cache files the resolver can find when it first runs: none, or one
\* it cannot read or decode, or a mapping with entries for A, then B
ForeignFiles ==
    {[kind |-> k, entries |-> <<>>] :
        k \in {"absent", "unreadable", "garbage", "scalar"}}
    \cup {JsonFile([i \in 1..Len(metas) |-> <<NameOrder[i], metas[i]>>]) :
            metas \in SeqsUpTo(ForeignMetas, MaxCacheEntries)}

\* the descriptors of the runs that compare the graph before and after a
\* call: plain ones, ones that offer an optional candidate, one that cannot
\* be parsed and one whose dependency entry is blank
AddMetas ==
    {Meta(n, V1, b, r, <<>>) :
        n \in Names, b \in PlainLists, r \in {<<>>, <<StrTok(C)>>}}
    \cup {Meta(n, V1, <<>>, <<>>, <<StrTok(A)>>) : n \in Names}
    \cup {NoMeta, Meta(A, V1, <<StrTok(<<" ">>)>>, <<>>, <<>>)}

\* the descriptors of the runs that follow resolve step by step
TermMetas ==
    {Meta(n, V1, b, <<>>, <<>>) : n \in {A, B}, b \in PlainLists}
      \cup {Meta(A, V1, b, <<>>, <<StrTok(C)>>) : b \in {<<>>, <<StrTok(B)>>}}

\* their Descriptor Sources: no package has a descriptor, or each has one
\* that depends on A
TermSources ==
    {[n \in Names |-> NoMeta],
     [n \in Names |-> Meta(n, V1, <<StrTok(A)>>, <<>>, <<>>)]}

\* the forms in which a descriptor can name the package n itself
SelfTokens(n) ==
    TokensOf(n) \cup {StrTok(n \o <<" ", "<", "1">>), StrTok(n \o <<"=", "=", "1">>)}

\* descriptors that list the package itself or another package, as a build
\* or as a runtime dependency
GraphMetas ==
    UNION {{Meta(n, V1, b, <<>>, <<>>) :
               b \in SeqsUpTo(SelfTokens(n)
                                \cup {StrTok(m) : m \in GraphNames \ {n}}, 1)} :
           n \in GraphNames}
    \cup {Meta(n, V1, <<>>, <<StrTok(n \o <<">", "=", "1">>)>>, <<>>) : n \in GraphNames}

\* the descriptors a scan of the ports tree finds, in the order of the walk
PortsTrees == SeqsUpTo(GraphMetas, MaxPorts)

RECURSIVE SumLen(_, _)
SumLen(g, S) ==
    IF S = {} THEN 0
    ELSE LET n == CHOOSE x \in S : TRUE
         IN  Len(optional_of(g, n)) + SumLen(g, S \ {n})

\* the graph stays within the bounds of the model
InBounds(g) ==
    /\ Cardinality(g.edges) <= MaxEdges
    /\ SumLen(g, g.nodes) <= MaxOptional
    /\ g.nodes \subseteq Names

-----------------------------------------------------------------------------
(* State and operations *)

NoFile == [kind |-> "absent", entries |-> <<>>]

Init ==
    /\ graph = EmptyGraph
    /\ loaded = FALSE
    /\ cacheFile = NoFile
    /\ tmpFile = NoFile
    /\ pc = "ready"
    /\ result = [op |-> "init"]

\* main_cli answers one command per process: the graph is populated
\* (from the cache, by the scan of the ports tree, or by calls of
\* add_package_from_metafile), then one query runs and the process ends.
\* A query that misses a package fetches it itself.
Populating == pc = "ready" /\ result.op \in {"init", "construct", "add_package"}

\* DepResolver.add_package_from_metafile
AddPackage(meta) ==
    LET r == add_package_from_metafile(graph, meta)
    IN  /\ Populating
        /\ InBounds(r.graph)
        /\ graph' = r.graph
        /\ result' = [op |-> "add_package", ret |-> r.ret, raised |-> r.raised]
        /\ UNCHANGED <<loaded, cacheFile, tmpFile, pc>>

\* DepResolver.resolve
Resolve(root_pkg, include_optional_prompt, resolve_optional, source, answers) ==
    /\ Populating
    /\ \E out \in resolve(graph, root_pkg, include_optional_prompt,
                          resolve_optional, source, answers) :
          /\ InBounds(out.graph)
          /\ graph' = out.graph
          /\ result' = [op |-> "resolve", root |-> root_pkg,
                        include |-> include_optional_prompt,
                        policy |-> resolve_optional,
                        in_source |-> find(source, root_pkg).parsed,
                        raised |-> out.raised, found |-> out.found,
                        order |-> out.order, cycles |-> out.cycles,
                        sub_nodes |-> out.sub_nodes, asked |-> out.asked,
                        answers |-> SubSeq(answers, 1, Len(out.asked))]
    /\ UNCHANGED <<loaded, cacheFile, tmpFile, pc>>

\* DepResolver.missing_deps
MissingDeps(root_pkg, resolve_optional, source, db) ==
    /\ Populating
    /\ \E out \in resolve(graph, root_pkg, FALSE, resolve_optional, source,
                          [i \in 1..MaxOptional |-> "n"]) :
          LET m == missing_deps(out, root_pkg, db)
          IN  /\ InBounds(out.graph)
              /\ graph' = out.graph
              /\ result' = [op |-> "missing_deps", root |-> root_pkg,
                            in_source |-> find(source, root_pkg).parsed,
                            found |-> out.found, order |-> out.order,
                            cycles |-> out.cycles, db |-> db,
                            raised |-> m.raised, ret |-> m.ret]
    /\ UNCHANGED <<loaded, cacheFile, tmpFile, pc>>

\* DepResolver.install_order
InstallOrder(root_pkg, skip_installed, resolve_optional, source, db) ==
    /\ Populating
    /\ \E out \in resolve(graph, root_pkg, FALSE, resolve_optional, source,
                          [i \in 1..MaxOptional |-> "n"]) :
          LET m == install_order(out, root_pkg, skip_installed, db)
          IN  /\ InBounds(out.graph)
              /\ graph' = out.graph
              /\ result' = [op |-> "install_order", root |-> root_pkg,
                            skip |-> skip_installed,
                            in_source |-> find(source, root_pkg).parsed,
                            found |-> out.found, order |-> out.order,
                            cycles |-> out.cycles, db |-> db,
                            raised |-> m.raised, ret |-> m.ret]
    /\ UNCHANGED <<loaded, cacheFile, tmpFile, pc>>

\* DepResolver.detect_orphans
DetectOrphans(reply) ==
    /\ Populating
    /\ result' = [op |-> "detect_orphans", reply |-> reply,
                  ret |-> detect_orphans(graph, reply)]
    /\ UNCHANGED <<graph, loaded, cacheFile, tmpFile, pc>>

\* DepResolver.mark_for_rebuild
MarkForRebuild(pkg, reply) ==
    /\ Populating
    /\ \E ordered \in mark_for_rebuild(graph, pkg, reply) :
          result' = [op |-> "mark_for_rebuild", pkg |-> pkg, reply |-> reply,
                     ret |-> ordered]
    /\ UNCHANGED <<graph, loaded, cacheFile, tmpFile, pc>>

\* the state a new installation starts in: whatever cache file is there
InitCache ==
    /\ graph = EmptyGraph
    /\ loaded = FALSE
    /\ cacheFile \in ForeignFiles
    /\ tmpFile = NoFile
    /\ pc = "ready"
    /\ result = [op |-> "init"]

\* DepResolver.__init__ in a new process, the previous one having ended
\* or been killed
Construct(aggressive_cache) ==
    LET r == try_load_cache(EmptyGraph, cacheFile)
    IN  /\ pc \in {"ready", "crashed"}
        /\ graph' = IF aggressive_cache THEN r.graph ELSE EmptyGraph
        /\ loaded' = IF aggressive_cache THEN r.loaded ELSE FALSE
        /\ pc' = "ready"
        /\ result' = [op |-> "construct", aggressive |-> aggressive_cache,
                      read |-> cacheFile]
        /\ UNCHANGED <<cacheFile, tmpFile>>

\* the file at path gets the content
WriteFile(path, content) ==
    /\ cacheFile' = IF path = cache_path THEN content ELSE cacheFile
    /\ tmpFile' = IF path = cache_path THEN tmpFile ELSE content

\* persist_cache up to open(tmp, "w"), which creates or empties the file;
\* result keeps what the cache file held and what is being written
PersistOpen ==
    /\ Populating
    /\ WriteFile(tmp_path(cache_path), [kind |-> "partial", entries |-> <<>>])
    /\ pc' = "opened"
    /\ result' = [op |-> "persist_cache", previous |-> cacheFile,
                  out |-> serialize(graph), raised |-> FALSE]
    /\ UNCHANGED <<graph, loaded>>

\* json.dump under way: the first k items have reached the file
PersistWrite(k) ==
    /\ pc = "opened"
    /\ WriteFile(tmp_path(cache_path),
                 [kind |-> "partial", entries |-> SubSeq(result.out, 1, k)])
    /\ pc' = "writing"
    /\ UNCHANGED <<graph, loaded, result>>

\* json.dump done and the file closed
PersistClose ==
    /\ pc = "writing"
    /\ WriteFile(tmp_path(cache_path), JsonFile(result.out))
    /\ pc' = "written"
    /\ UNCHANGED <<graph, loaded, result>>

\* os.replace(tmp, self.cache_path)
PersistReplace ==
    /\ pc = "written"
    /\ IF tmp_path(cache_path) = cache_path
       THEN UNCHANGED <<cacheFile, tmpFile>>
       ELSE cacheFile' = tmpFile /\ tmpFile' = NoFile
    /\ pc' = "ready"
    /\ UNCHANGED <<graph, loaded, result>>

\* what is left at the temporary path is never read again
Leftover(file) ==
    IF file.kind = "absent" THEN file ELSE [kind |-> "stale", entries |-> <<>>]

\* an exception inside persist_cache (opening, writing, replacing), which
\* it logs: the call returns and nothing more is written
PersistError ==
    /\ pc \in {"opened", "writing", "written"}
    /\ pc' = "ready"
    /\ tmpFile' = Leftover(tmpFile)
    /\ result' = [result EXCEPT !.raised = TRUE]
    /\ UNCHANGED <<graph, loaded, cacheFile>>

\* the process is interrupted inside persist_cache; its graph is gone
Crash ==
    /\ pc \in {"opened", "writing", "written"}
    /\ pc' = "crashed"
    /\ graph' = EmptyGraph
    /\ loaded' = FALSE
    /\ tmpFile' = Leftover(tmpFile)
    /\ UNCHANGED <<cacheFile, result>>

\* DepResolver.add_package_from_metafile, the descriptor and the graph
\* before the call kept in result
AddPackageFrom(meta) ==
    LET r == add_package_from_metafile(graph, meta)
    IN  /\ InBounds(r.graph)
        /\ graph' = r.graph
        /\ result' = [op |-> "add_package", ret |-> r.ret, raised |-> r.raised,
                      meta |-> meta, before |-> graph]
        /\ UNCHANGED <<loaded, cacheFile, tmpFile, pc>>

\* DepResolver.sync_from_ports up to open(tmp, "w") of persist_cache, when
\* the configuration has cache_graph; all of it otherwise.  (The second
\* persist_cache of sync_from_ports writes what the first one wrote.)
Sync(metas, cache_graph) ==
    LET g == build_graph_from_ports(EmptyGraph, metas)
    IN  /\ InBounds(g)
        /\ graph' = g
        /\ IF cache_graph
           THEN /\ WriteFile(tmp_path(cache_path),
                             [kind |-> "partial", entries |-> <<>>])
                /\ pc' = "opened"
                /\ result' = [op |-> "persist_cache", previous |-> cacheFile,
                              out |-> serialize(g), raised |-> FALSE]
           ELSE /\ UNCHANGED <<cacheFile, tmpFile, pc>>
                /\ result' = [op |-> "sync"]
        /\ UNCHANGED loaded

\* the cache file these runs start with: one package, which depends on
\* itself
LoopFile ==
    JsonFile(<<<<A, MetaOf([version |-> V1, optional |-> <<>>], <<A>>)>>>>)

\* the state a run that follows resolve step by step starts in
InitTerm ==
    /\ graph = EmptyGraph
    /\ loaded = FALSE
    /\ cacheFile = LoopFile
    /\ tmpFile = NoFile
    /\ pc = "ready"
    /\ result = [op |-> "init"]

\* resolve returns: what the caller gets, in the form Resolve records it
Returns(r, out) ==
    [op |-> "resolve", root |-> r.root, include |-> r.include,
     policy |-> r.policy, in_source |-> r.in_source,
     raised |-> out.raised, found |-> out.found,
     order |-> out.order, cycles |-> out.cycles,
     sub_nodes |-> out.sub_nodes, asked |-> out.asked,
     answers |-> SubSeq(r.answers, 1, Len(out.asked))]

NotFound(g, raised) ==
    [graph |-> g, raised |-> raised, found |-> FALSE, sub_nodes |-> {},
     asked |-> <<>>, order |-> <<>>, cycles |-> <<>>]

\* resolve up to its first while loop: root_pkg is looked up, and fetched
\* when it is no node
ResolveBegin(root_pkg, include_optional_prompt, resolve_optional, source, answers) ==
    LET added == IF root_pkg \in graph.nodes
                 THEN [graph |-> graph, ret |-> root_pkg, raised |-> FALSE]
                 ELSE add_package_from_metafile(graph, find(source, root_pkg))
        run   == [op |-> "resolving", root |-> root_pkg,
                  include |-> include_optional_prompt,
                  policy |-> resolve_optional,
                  in_source |-> find(source, root_pkg).parsed,
                  source |-> source, answers |-> answers,
                  pairs |-> <<>>, asked |-> <<>>,
                  t |-> start_traversal(root_pkg)]
    IN  /\ InBounds(added.graph)
        /\ graph' = added.graph
        /\ IF added.raised \/ added.ret = None
           THEN /\ pc' = "ready"
                /\ result' = Returns(run, NotFound(added.graph, added.raised))
           ELSE /\ pc' = "dfs"
                /\ result' = run
        /\ UNCHANGED <<loaded, cacheFile, tmpFile>>

\* an iteration of the first while loop
DfsStep ==
    /\ pc = "dfs" /\ result.t.stack # <<>>
    /\ result' = [result EXCEPT !.t = dfs_step(graph, @)]
    /\ UNCHANGED <<graph, loaded, cacheFile, tmpFile, pc>>

\* the first while loop ends: the prompt loop follows when there is
\* something to ask and the caller and the policy allow it
DfsDone ==
    /\ pc = "dfs" /\ result.t.stack = <<>>
    /\ IF result.t.optional_to_ask # <<>> /\ result.include /\ result.policy
       THEN /\ pc' = "ask"
            /\ result' = [result EXCEPT
                             !.pairs = pairs_of(result.t.optional_to_ask)]
       ELSE /\ pc' = "finish"
            /\ UNCHANGED result
    /\ UNCHANGED <<graph, loaded, cacheFile, tmpFile>>

\* the answer to the next decision request
answer_of(r) == r.answers[Len(r.asked) + 1]

\* the prompt loop's add_package_from_metafile(o): run when the answer is
\* yes and the candidate is no node
fetch_candidate(g, r) ==
    LET o == r.pairs[1][2]
    IN  IF answer_of(r) = "y" /\ o \notin g.nodes
        THEN add_package_from_metafile(g, find(r.source, o))
        ELSE [graph |-> g, ret |-> o, raised |-> FALSE]

\* one iteration of the prompt loop up to the candidate's walk, added being
\* the outcome of fetch_candidate: on yes the walk starts with the candidate
\* on the stack, unless the fetch raised or the candidate is still no node
ask_step(r, added) ==
    LET pair == r.pairs[1]
        o    == pair[2]
        next == [r EXCEPT !.pairs = Tail(@), !.asked = Append(@, pair)]
    IN  IF answer_of(r) # "y"
        THEN [graph |-> added.graph, pc |-> "ask", result |-> next]
        ELSE IF added.raised \/ o \notin added.graph.nodes
        THEN [graph |-> added.graph, pc |-> "ready",
              result |-> Returns(next,
                            [NotFound(added.graph, TRUE) EXCEPT
                                !.found = TRUE, !.asked = next.asked])]
        ELSE [graph |-> added.graph, pc |-> "optwalk",
              result |-> [next EXCEPT !.t.stack = <<o>>, !.t.pops = NoPops]]

\* the next decision request and its answer
AskStep ==
    /\ pc = "ask"
    /\ result.pairs # <<>>
    /\ \E added \in {fetch_candidate(graph, result)} :
          \E n \in {ask_step(result, added)} :
             /\ graph' = n.graph
             /\ pc' = n.pc
             /\ result' = n.result
    /\ UNCHANGED <<loaded, cacheFile, tmpFile>>

\* an iteration of the walk from an accepted candidate
OptStep ==
    /\ pc = "optwalk" /\ result.t.stack # <<>>
    /\ result' = [result EXCEPT !.t = opt_step(graph, @)]
    /\ UNCHANGED <<graph, loaded, cacheFile, tmpFile, pc>>

\* the walk ends: back to the prompt loop
OptDone ==
    /\ pc = "optwalk" /\ result.t.stack = <<>>
    /\ pc' = "ask"
    /\ UNCHANGED <<graph, loaded, cacheFile, tmpFile, result>>

\* the prompt loop ends
AskDone ==
    /\ pc = "ask" /\ result.pairs = <<>>
    /\ pc' = "finish"
    /\ UNCHANGED <<graph, loaded, cacheFile, tmpFile, result>>

\* resolve from "sub_nodes = ..." to its return
ResolveFinish ==
    /\ pc = "finish"
    /\ \E out \in finish(graph, result.root, result.t.deps_set, result.asked) :
          result' = Returns(result, out)
    /\ pc' = "ready"
    /\ UNCHANGED <<graph, loaded, cacheFile, tmpFile>>

\* the statements of a running resolve
ResolveSteps ==
    \/ DfsStep
    \/ DfsDone
    \/ AskStep
    \/ OptStep
    \/ OptDone
    \/ AskDone
    \/ ResolveFinish

\* the commands of main_cli, each with the inputs it is run on
CmdAdd == \E meta \in Metas : AddPackage(meta)

CmdAddPlain == \E meta \in PlainMetas : AddPackage(meta)

CmdResolve ==
    /\ Populating
    /\ \E root_pkg \in Names, include \in BOOLEAN, policy \in BOOLEAN :
          \E source \in Sources(graph, root_pkg),
             answers \in AnswerLists(include, policy) :
             Resolve(root_pkg, include, policy, source, answers)

CmdMissing ==
    /\ Populating
    /\ \E root_pkg \in Names, policy \in BOOLEAN, db \in DbViews :
          \E source \in Sources(graph, root_pkg) :
             MissingDeps(root_pkg, policy, source, db)

CmdOrder ==
    /\ Populating
    /\ \E root_pkg \in Names, skip \in BOOLEAN, policy \in BOOLEAN, db \in DbViews :
          \E source \in Sources(graph, root_pkg) :
             InstallOrder(root_pkg, skip, policy, source, db)

CmdClean == \E reply \in ListReplies : DetectOrphans(reply)

CmdRebuild == \E pkg \in Names, reply \in RevReplies : MarkForRebuild(pkg, reply)

NextDb == CmdAddPlain \/ CmdClean \/ CmdRebuild

SpecDb == Init /\ [][NextDb]_vars

CmdAddCached == \E meta \in CacheMetas : AddPackage(meta)

CmdConstruct == \E aggressive_cache \in BOOLEAN : Construct(aggressive_cache)

CmdPersistWrite ==
    pc = "opened" /\ \E k \in 0..Len(result.out) : PersistWrite(k)

NextCache ==
    \/ CmdConstruct
    \/ CmdAddCached
    \/ PersistOpen
    \/ CmdPersistWrite
    \/ PersistClose
    \/ PersistReplace
    \/ PersistError
    \/ Crash

SpecCache == InitCache /\ [][NextCache]_vars

CmdAddFrom == Populating /\ \E meta \in GraphMetas : AddPackageFrom(meta)

\* "sync" is the command of a process that has just been constructed
CmdSync ==
    /\ pc = "ready" /\ result.op \in {"init", "construct"}
    /\ \E metas \in PortsTrees, cache_graph \in BOOLEAN : Sync(metas, cache_graph)

NextGraph ==
    \/ CmdConstruct
    \/ CmdAddFrom
    \/ CmdSync
    \/ PersistOpen
    \/ CmdPersistWrite
    \/ PersistClose
    \/ PersistReplace
    \/ PersistError
    \/ Crash

SpecGraph == Init /\ [][NextGraph]_vars

CmdAddAny == Populating /\ \E meta \in AddMetas : AddPackageFrom(meta)

SpecAdd == Init /\ [][CmdAddAny]_vars

CmdAddTerm == \E meta \in TermMetas : AddPackage(meta)

CmdResolveBegin ==
    /\ Populating
    /\ \E root_pkg \in Names, include \in BOOLEAN, policy \in BOOLEAN :
          \E source \in TermSources,
             answers \in AnswerLists(include, policy) :
             ResolveBegin(root_pkg, include, policy, source, answers)

NextTerm == CmdConstruct \/ CmdAddTerm \/ CmdResolveBegin \/ ResolveSteps

\* resolve runs in one thread, which executes its next statement as long
\* as there is one; every decision request gets its answer
SpecTerm == InitTerm /\ [][NextTerm]_vars /\ WF_vars(ResolveSteps)

NextResolve == CmdAdd \/ CmdResolve

SpecResolve == Init /\ [][NextResolve]_vars

NextInstall == CmdAddPlain \/ CmdMissing \/ CmdOrder

SpecInstall == Init /\ [][NextInstall]_vars

-----------------------------------------------------------------------------
(* Notions the claims are stated with, defined apart from the operations *)

\* the least set holding S and closed under "depends on"
RECURSIVE Closure(_, _)
Closure(g, S) ==
    LET T == S \cup UNION {successors(g, n) : n \in S}
    IN  IF T = S THEN S ELSE Closure(g, T)

\* reachable_from: the nodes reached from n by one edge or more
ReachableFrom(g, n) == Closure(g, successors(g, n))

\* the induced subgraph over S holds a directed cycle
HasCycle(g, S) == \E n \in S : n \in ReachableFrom(subgraph(g, S), n)

\* {root} and everything reachable from it by mandatory edges
MandatoryNodes(g, root) == {root} \cup ReachableFrom(g, root)

\* the candidates of a resolve result that were answered yes
Accepted(res) ==
    {res.asked[i][2] : i \in {j \in 1..Len(res.asked) : res.answers[j] = "y"}}

\* the nodes of the subgraph resolve works on: the mandatory ones and
\* what the accepted candidates depend on
ResolvedNodes(g, res) ==
    MandatoryNodes(g, res.root)
        \cup UNION {ReachableFrom(g, c) : c \in Accepted(res)}

\* order lists the nodes of S once each, every dependency before its dependents
IsBuildOrder(g, S, order) ==
    /\ Range(order) = S
    /\ Len(order) = Cardinality(S)
    /\ \A e \in g.edges :
          (e[1] \in S /\ e[2] \in S) => Index(order, e[2]) < Index(order, e[1])

\* resolve returned (it neither raised nor missed its root)
Resolved == result.op = "resolve" /\ ~result.raised /\ result.found

-----------------------------------------------------------------------------
(* Claims on resolve *)

\* C1 as stated: whenever resolve reports no cycle, the Build Order is an
\* order of exactly {root} and the nodes reachable from root, root last.
C1_AsStated ==
    (Resolved /\ result.cycles = <<>>) =>
        /\ IsBuildOrder(graph, MandatoryNodes(graph, result.root), result.order)
        /\ result.order[Len(result.order)] = result.root

\* C1 (amended): whenever resolve reports no cycle, the Build Order lists
\* every node of the resolved subgraph -- {root}, the nodes reachable from
\* root and the nodes the accepted optional candidates depend on -- exactly
\* once and nothing else, every dependency at a smaller index than its
\* dependents; root is last when every such node is reachable from root.
C1_BuildOrder ==
    (Resolved /\ result.cycles = <<>>) =>
        /\ IsBuildOrder(graph, ResolvedNodes(graph, result), result.order)
        /\ (ResolvedNodes(graph, result) = MandatoryNodes(graph, result.root)
              => result.order[Len(result.order)] = result.root)

\* a Build Order of two packages joined by an edge, one of them brought in
\* by an accepted optional candidate
C1_Witness ==
    /\ Resolved /\ result.cycles = <<>>
    /\ Len(result.order) = 2
    /\ Accepted(result) # {}
    /\ ResolvedNodes(graph, result) # MandatoryNodes(graph, result.root)
    /\ \E e \in graph.edges : {e[1], e[2]} = Range(result.order)

\* C2 as stated: resolve returns a non-empty Cycle Report and an empty
\* Build Order exactly when the subgraph over {root} and the nodes reachable
\* from root holds a directed cycle.
C2_AsStated ==
    (result.op = "resolve" /\ ~result.raised) =>
        ((result.cycles # <<>> /\ result.order = <<>>)
            <=> HasCycle(graph, MandatoryNodes(graph, result.root)))

\* C2 (amended): resolve returns a non-empty Cycle Report and an empty Build
\* Order exactly when the resolved subgraph ({root}, the nodes reachable from
\* root and the nodes the accepted optional candidates depend on) holds a
\* directed cycle; a root that cannot be found yields neither.
C2_CycleReport ==
    (result.op = "resolve" /\ ~result.raised) =>
        /\ (result.cycles # <<>> /\ result.order = <<>>)
              <=> (result.found /\ HasCycle(graph, ResolvedNodes(graph, result)))
        /\ (result.cycles # <<>> \/ result.order # <<>> \/ ~result.found)

\* A -> B -> C -> A and resolve(A): a Cycle Report and no Build Order
C2_Witness ==
    /\ Resolved /\ result.root = A
    /\ {<<A, B>>, <<B, C>>, <<C, A>>} \subseteq graph.edges
    /\ result.cycles # <<>> /\ result.order = <<>>


-----------------------------------------------------------------------------
(* Claims on missing_deps and install_order *)

\* the database holds an installed record for the package: db.sh is there,
\* ends with status 0 and prints a manifest or a list of manifests
HasRecord(reply) ==
    reply.cli /\ reply.returncode = 0 /\ reply.stdout \in {"object", "array"}

NotInstalledIn(db, order) == {n \in Range(order) : ~HasRecord(db[n])}

\* the operation returned after an acyclic resolution of its root
AcyclicRun(op) ==
    result.op = op /\ ~result.raised /\ result.found /\ result.cycles = <<>>

C4_InstallOrder ==
    AcyclicRun("install_order") =>
        /\ IsBuildOrder(graph, MandatoryNodes(graph, result.root), result.order)
        /\ ~result.skip =>
              /\ result.ret = result.order
              /\ result.ret[Len(result.ret)] = result.root
        /\ result.skip =>
              /\ result.ret = Filter(result.order,
                                     NotInstalledIn(result.db, result.order))
              /\ (result.ret # <<>> /\ result.ret[Len(result.ret)] = result.root)
                    <=> ~HasRecord(result.db[result.root])
        /\ \A e \in graph.edges :
              {e[1], e[2]} \subseteq Range(result.ret)
                 => Index(result.ret, e[2]) < Index(result.ret, e[1])

\* skip_installed with an installed root and a dependency chain of which
\* one package is missing
C4_Witness ==
    /\ AcyclicRun("install_order") /\ result.skip
    /\ Len(result.order) = 3
    /\ HasRecord(result.db[result.root])
    /\ Len(result.ret) = 2
    /\ \E e \in graph.edges : {e[1], e[2]} = Range(result.ret)

\* C5: when root is no node and the Descriptor Source has no descriptor
\* for it, install_order fails instead of returning a list, and the graph is
\* as it was.
C5_NotFoundFails ==
    (result.op = "install_order" /\ ~result.found) =>
        (result.raised /\ result.root \notin graph.nodes)


-----------------------------------------------------------------------------
(* Claims on detect_orphans and mark_for_rebuild *)

\* the installed-package list L the database returned: the names of the
\* list it printed, none when it printed no list or failed
InstalledList(reply) ==
    IF reply.cli /\ reply.returncode = 0 /\ reply.stdout = "array"
    THEN Filter(reply.items, Names) ELSE <<>>

\* C6: detect_orphans returns the subsequence of the installed list L, order
\* kept, of the names n no edge of the graph points to, whoever the
\* dependent is; an installed name that is no node is in the result.  With
\* installed [A, B] and the single edge C -> A the result is [B].
C6_DetectOrphans ==
    result.op = "detect_orphans" =>
        LET L == InstalledList(result.reply)
        IN  /\ result.ret = Filter(L, {n \in Range(L) :
                                         ~\E e \in graph.edges : e[2] = n})
            /\ \A n \in Range(L) \ graph.nodes : n \in Range(result.ret)
            /\ (L = <<A, B>> /\ graph.edges = {<<C, A>>}) => result.ret = <<B>>

\* the scenario of the claim: A and B installed, C not, C -> A
C6_Witness ==
    /\ result.op = "detect_orphans"
    /\ InstalledList(result.reply) = <<A, B>>
    /\ graph.edges = {<<C, A>>}
    /\ result.ret = <<B>>

\* the bare names the reverse-dependency query of the database reported
DbDependents(reply) ==
    IF reply.cli /\ reply.returncode = 0
    THEN {SplitFirst(Strip(reply.lines[i]), <<"-">>) :
            i \in {j \in 1..Len(reply.lines) : Strip(reply.lines[j]) # <<>>}}
    ELSE {}

\* the packages that depend on pkg, directly or transitively
GraphDependents(g, pkg) == {n \in g.nodes : pkg \in ReachableFrom(g, n)}

\* the nodes reached from S by exactly k edges
RECURSIVE Steps(_, _, _)
Steps(g, S, k) ==
    IF k = 0 THEN S ELSE Steps(g, UNION {successors(g, n) : n \in S}, k - 1)

\* dist(d): the shortest dependency-path length from d to pkg, 0 when
\* there is no such path
Dist(g, d, pkg) ==
    LET ks == {k \in 0..Cardinality(g.nodes) : pkg \in Steps(g, {d} \cap g.nodes, k)}
    IN  IF ks = {} THEN 0 ELSE CHOOSE k \in ks : \A l \in ks : k <= l

Rebuilt == result.op = "mark_for_rebuild"

\* C7: the list mark_for_rebuild(pkg) returns holds, once each, the
\* packages that depend on pkg in the graph and the bare names the
\* database reported, and nothing else; pkg itself is not in it when the
\* graph is acyclic (and the database does not name it).  For the chain
\* A -> B -> C, mark_for_rebuild(C) returns [A, B].
C7_Dependents ==
    Rebuilt =>
        /\ Range(result.ret) = GraphDependents(graph, result.pkg)
                                 \cup DbDependents(result.reply)
        /\ Len(result.ret) = Cardinality(Range(result.ret))
        /\ (~HasCycle(graph, graph.nodes)
              /\ result.pkg \notin DbDependents(result.reply))
              => result.pkg \notin Range(result.ret)
        /\ (graph.edges = {<<A, B>>, <<B, C>>} /\ result.pkg = C
              /\ DbDependents(result.reply) = {})
              => result.ret = <<A, B>>

-----------------------------------------------------------------------------
(* Claims on the graph cache *)

\* an entry no graph can be rebuilt from
InvalidMeta(meta) ==
    \/ meta.kind # "mapping"
    \/ ~meta.attrs_ok
    \/ ~meta.deps_ok
    \/ \E i \in 1..Len(meta.deps) : meta.deps[i] \notin Names

\* loading the file fails: it cannot be read or decoded, or what it decodes
\* to is no mapping, or some entry of the mapping is invalid
LoadFails(file) ==
    \/ file.kind \in {"unreadable", "garbage", "partial", "scalar"}
    \/ /\ file.kind = "json"
       /\ \E i \in 1..Len(file.entries) : InvalidMeta(file.entries[i][2])

\* C9: when loading the cache fails for any reason, an invalid entry after
\* valid ones included, the graph afterwards has no nodes and no edges.
C9_LoadFailureEmpty ==
    (result.op = "construct" /\ result.aggressive /\ LoadFails(result.read)) =>
        (graph.nodes = {} /\ graph.edges = {} /\ ~loaded)

\* persist_cache was called and no process has started since
Persisting == result.op = "persist_cache"

\* C10: whatever point persist_cache is interrupted at, the cache file holds
\* at every moment either all of what it held before the call (or is absent
\* as before) or all of the new serialization, the former until the replace;
\* it is never a partially written file, and no load reads one.
C10_PersistAtomic ==
    /\ cacheFile.kind # "partial"
    /\ Persisting =>
          /\ cacheFile \in {result.previous, JsonFile(result.out)}
          /\ pc \in {"opened", "writing", "written"} =>
                (cacheFile = result.previous /\ result.out = serialize(graph))
          /\ (pc = "ready" /\ ~result.raised) => cacheFile = JsonFile(serialize(graph))
    /\ result.op = "construct" => result.read.kind # "partial"

\* the process was interrupted while writing a non-empty graph over an
\* older cache: the older cache is still there, whole
C10_Witness ==
    /\ Persisting /\ pc = "crashed"
    /\ tmpFile.kind = "stale"
    /\ result.out # <<>>
    /\ cacheFile = result.previous
    /\ cacheFile.kind = "json" /\ cacheFile.entries # <<>>
    /\ cacheFile # JsonFile(result.out)


\* a new process loads the cache the previous one has just persisted
LoadsPersisted ==
    /\ Persisting /\ pc = "ready" /\ ~result.raised
    /\ result'.op = "construct" /\ result'.aggressive

\* C11: loading what persist_cache wrote for a graph rebuilds a graph with
\* the same node set (placeholders included), the same attributes on every
\* node and the same edge set.
C11_RoundTrip ==
    [][LoadsPersisted =>
          /\ loaded'
          /\ graph'.nodes = graph.nodes
          /\ \A n \in graph.nodes : graph'.attrs[n] = graph.attrs[n]
          /\ graph'.edges = graph.edges]_vars

\* a graph grown by add_package -- a described package with an optional
\* candidate and a placeholder that something depends on -- read back from
\* the cache persist_cache wrote for it
C11_Witness ==
    /\ result.op = "construct" /\ result.aggressive /\ loaded
    /\ result.read = JsonFile(serialize(graph))
    /\ \E n \in graph.nodes :
          graph.attrs[n].version = V1 /\ Len(optional_of(graph, n)) > 0
    /\ \E e \in graph.edges : graph.attrs[e[2]] = NoAttrs


-----------------------------------------------------------------------------
(* Claims on the graph add_package builds *)

\* the descriptor names the package itself among its dependencies, with a
\* version qualifier
ListsItself(meta) ==
    \E i \in 1..Len(meta.build \o meta.runtime) :
       LET it == (meta.build \o meta.runtime)[i]
       IN  it.kind = "str" /\ it.text # meta.name
             /\ SubSeq(it.text, 1, Len(meta.name)) = meta.name

\* C12: no state reached by add_package, persist, load of a persisted cache
\* and sync has an edge A -> A, also when a descriptor lists its own name
\* among its build or runtime dependencies, with or without a qualifier.
C12_NoSelfLoop == \A e \in graph.edges : e[1] # e[2]

\* a graph read back from a persisted cache, to which a descriptor that
\* lists itself with a version qualifier has just been added
C12_Witness ==
    /\ result.op = "add_package" /\ ~result.raised
    /\ ListsItself(result.meta)
    /\ result.ret = result.meta.name
    /\ loaded /\ graph.edges # {}


\* add_package_from_metafile has just returned the name of its descriptor
Added == result.op = "add_package" /\ ~result.raised /\ result.ret # None

\* the texts of a list of plain entries
RECURSIVE TextsOf(_)
TextsOf(lst) ==
    IF lst = <<>> THEN <<>> ELSE <<lst[1].text>> \o TextsOf(Tail(lst))

\* what a call of add_package may change, result.before being the graph
\* it was called on
AddFrame ==
    /\ (result.op = "add_package" /\ ~Added) => graph = result.before
    /\ Added =>
          /\ result.before.nodes \subseteq graph.nodes
          /\ \A n \in result.before.nodes \ {result.ret} :
                graph.attrs[n] = result.before.attrs[n]
          /\ result.before.edges \subseteq graph.edges
          /\ \A e \in graph.edges \ result.before.edges : e[1] = result.ret
          /\ graph.attrs[result.ret] =
                [version |-> result.meta.version,
                 optional |-> TextsOf(result.meta.optional)]

\* two calls in a row for descriptors with distinct names give the graph
\* that the same calls give in the other order
SwapsWithPrevious ==
    (Added /\ Added' /\ result'.before = graph
       /\ result.meta.name # result'.meta.name)
    => graph' = add_package_from_metafile(
                    add_package_from_metafile(result.before, result'.meta).graph,
                    result.meta).graph

\* C14: add_package(d) changes only the attributes of node d.name and only
\* adds edges that leave d.name: every other node keeps its attributes,
\* every existing edge stays, a placeholder that is later described gains
\* the attributes and keeps the edges into it; so descriptors with distinct
\* names give the same graph in whatever order they are added.
C14_AddFrame == []AddFrame /\ [][SwapsWithPrevious]_vars

\* B, a placeholder that A depends on, has just been described, naming the
\* already described A as its dependency
C14_Witness ==
    /\ Added
    /\ result.ret \in result.before.nodes
    /\ result.before.attrs[result.ret] = NoAttrs
    /\ \E e \in result.before.edges : e[2] = result.ret
    /\ \E e \in graph.edges \ result.before.edges :
          result.before.attrs[e[2]].version = V1

-----------------------------------------------------------------------------
(* Claims on the optional-dependency protocol and on termination *)

\* how often x occurs in the sequence s
Count(s, x) == Cardinality({i \in 1..Len(s) : s[i] = x})

\* a decision request was issued once for every candidate recorded against
\* root or a package reachable from root, and for nothing else
AskedAllRecorded ==
    /\ \A i \in 1..Len(result.asked) :
          result.asked[i][1] \in MandatoryNodes(graph, result.root)
    /\ \A p \in MandatoryNodes(graph, result.root) : \A c \in Names :
          Count(result.asked, <<p, c>>) = Count(optional_of(graph, p), c)

\* the requests are issued only when policy and caller both enable them;
\* without an accepted candidate the result is that of the mandatory edges
ProtocolRest ==
    /\ IF result.include /\ result.policy THEN AskedAllRecorded
                                          ELSE result.asked = <<>>
    /\ Accepted(result) = {} =>
          /\ result.sub_nodes = MandatoryNodes(graph, result.root)
          /\ result.cycles # <<>>
                <=> HasCycle(graph, MandatoryNodes(graph, result.root))
          /\ result.cycles = <<>> =>
                /\ IsBuildOrder(graph, MandatoryNodes(graph, result.root),
                                result.order)
                /\ result.order[Len(result.order)] = result.root

Resolving == pc \in {"dfs", "ask", "optwalk", "finish"}

\* resolve has returned: an order, a cycle report, or a failure (root_pkg
\* not found, or an exception)
Returned == pc = "ready" /\ result.op = "resolve"

\* the number of edges that point to n
InDegree(g, n) == Cardinality({e \in g.edges : e[2] = n})

\* the running traversal has popped no package more often than once for
\* the traversal's start and once for every edge that points to it
VisitBound ==
    Resolving =>
        \A n \in Names : result.t.pops[n] <= 1 + InDegree(graph, n)

\* C15: on every graph, cyclic ones and ones with a cycle through root
\* included, and for every sequence of answers, a call of resolve whose
\* decision requests are all answered returns; the traversal from root and
\* the one from each accepted candidate visit every node a bounded number
\* of times.
C15_Terminates == (Resolving ~> Returned) /\ []VisitBound

\* resolve has returned for a root that lies on a dependency cycle of two
\* packages, after a candidate was accepted whose walk led back to root
C15_Witness ==
    /\ Returned /\ ~result.raised /\ result.found
    /\ \E n \in graph.nodes \ {result.root} :
          /\ n \in ReachableFrom(graph, result.root)
          /\ result.root \in ReachableFrom(graph, n)
    /\ result.answers = <<"y">>
    /\ result.root \in successors(graph, result.asked[1][2])

=============================================================================
